---- MODULE Spec2Model ----
(***************************************************************************)
(* Model of the NPI ingestion engine (src/db/mongo.py, class NPI_Mongo):   *)
(* the code lookup caches, the row-to-document mapping and the insert and  *)
(* update operations against a collection with a unique index on `number`. *)
(*                                                                         *)
(* One insert()/update() call is a sequence of steps, one per loop         *)
(* iteration of the handler:                                               *)
(*   idle -> refresh -> mapping -> writing -> fallback -> reported -> idle *)
(*   idle -> refresh -> updating -> reported -> idle                       *)
(*                                                                         *)
(* The collection is the external store.  It is modelled by what pymongo   *)
(* documents: insert_many(ordered=False) attempts every document, writes   *)
(* those that do not violate the unique index and raises if any did;       *)
(* insert_one raises on a duplicate key; replace_one(upsert=False) replaces*)
(* the matching document or does nothing.  Duplicate key is the only write *)
(* failure of the store that is modelled.                                  *)
(*                                                                         *)
(* Strings that the code inspects character by character (taxonomy codes,  *)
(* identifier type tokens) are sequences of one-character strings.         *)
(* A row carries one taxonomy slot and one identifier slot.                *)
(***************************************************************************)
EXTENDS Integers, Sequences, FiniteSets, TLC

\* ---------------------------------------------------------------- bounds
MaxRows == 2
NumKeys == 2

Keys == 1..NumKeys

\* ------------------------------------------------------- missing values
\* pandas NaN in a numeric cell (npi) and Python None in `number`
NaNNum == 0 - 1
NoneNum == 0 - 2
\* pandas NaN / Python None in a string cell
NaN == <<"NaN">>
None == <<"None">>

IsNa(v) == v = NaN
ConvertNanToNone(v) == IF IsNa(v) THEN None ELSE v

\* ------------------------------------------------------ string helpers
Digits == {"0", "1", "2", "3", "4", "5", "6", "7", "8", "9"}
Whitespace == {" "}

RECURSIVE LStrip(_)
LStrip(s) == IF s # <<>> /\ Head(s) \in Whitespace THEN LStrip(Tail(s)) ELSE s

RECURSIVE RStrip(_)
RStrip(s) ==
    IF s # <<>> /\ s[Len(s)] \in Whitespace
    THEN RStrip(SubSeq(s, 1, Len(s) - 1))
    ELSE s

\* str.strip()
Strip(s) == RStrip(LStrip(s))

\* '.0' in type_str
ContainsDotZero(s) == \E i \in 1..(Len(s) - 1) : s[i] = "." /\ s[i + 1] = "0"

\* type_str.replace('.0', '')
RECURSIVE RemoveDotZero(_)
RemoveDotZero(s) ==
    IF s = <<>> THEN <<>>
    ELSE IF Len(s) >= 2 /\ s[1] = "." /\ s[2] = "0"
         THEN RemoveDotZero(SubSeq(s, 3, Len(s)))
         ELSE <<s[1]>> \o RemoveDotZero(Tail(s))

\* str.isdigit()
IsDigit(s) == s # <<>> /\ \A i \in 1..Len(s) : s[i] \in Digits

\* int(float(s)) printed back: leading zeros are lost
RECURSIVE StripLeadingZeros(_)
StripLeadingZeros(s) ==
    IF Len(s) > 1 /\ s[1] = "0" THEN StripLeadingZeros(Tail(s)) ELSE s

\* f"{n:02d}"
Format02d(s) == IF Len(s) < 2 THEN <<"0">> \o s ELSE s

\* ------------------------------------------------------------ the caches
TaxKnown == <<"2", "0", "7", "X", "0", "0", "0", "0", "0", "X">>
TaxNew == <<"1", "0", "1", "Y", "0", "0", "0", "0", "0", "X">>

Desc(fmt, arg) == [fmt |-> fmt, arg |-> arg]

\* default_taxonomies (the entry the inputs refer to)
DefaultTaxonomies == (TaxKnown :> Desc("Orthopaedic Surgery", <<>>))

\* default_identifiers (the entries the inputs refer to)
DefaultIdentifiers ==
    (<<"1">> :> [code |-> <<"0", "1">>, desc |-> Desc("Other (non-Medicare)", <<>>)])
    @@ (<<"5">> :> [code |-> <<"0", "5">>, desc |-> Desc("MEDICAID", <<>>)])
    @@ (<<"5", ".", "0">> :> [code |-> <<"0", "5">>, desc |-> Desc("MEDICAID", <<>>)])

\* a cache file holding the JSON of `data`; a file that json.load rejects;
\* no file
File(data) == [exists |-> TRUE, valid |-> TRUE, data |-> data]
AbsentFile == [exists |-> FALSE, valid |-> FALSE, data |-> <<>>]

\* the write of a cache file succeeds, or open() raises and the file is
\* left as it was
SaveOutcomes == {"written", "failed"}

\* _save_taxonomy_cache / _save_identifier_cache: the file after the call
SaveCacheMutStale(file, dict, outcome) == file
SaveCache(file, dict, outcome) ==
    IF outcome = "written" THEN File(dict) ELSE file

\* the except clause of _save_*_cache logs the failure: nothing is raised
SaveRaisesMutPropagate(outcome) == outcome = "failed"
SaveRaises(outcome) == FALSE

\* which branch _load_*_cache takes for a cache file
LoadBranch(file) ==
    IF ~file.exists THEN "absent"
    ELSE IF ~file.valid THEN "corrupt"
    ELSE "loaded"

\* _load_*_cache: the file's contents when json.load accepts it, otherwise
\* the defaults, which are saved
LoadCacheMutMerge(file, default, outcome) ==
    IF LoadBranch(file) = "loaded"
    THEN [cache |-> [c \in DOMAIN default \cup DOMAIN file.data |->
                        IF c \in DOMAIN file.data THEN file.data[c] ELSE default[c]],
          file |-> file, save |-> "none"]
    ELSE [cache |-> default, file |-> SaveCache(file, default, outcome),
          save |-> outcome]
LoadCache(file, default, outcome) ==
    IF LoadBranch(file) = "loaded"
    THEN [cache |-> file.data, file |-> file, save |-> "none"]
    ELSE [cache |-> default, file |-> SaveCache(file, default, outcome),
          save |-> outcome]

\* dict.update(new)
DictUpdate(d, new) ==
    [c \in DOMAIN d \cup DOMAIN new |-> IF c \in DOMAIN new THEN new[c] ELSE d[c]]

\* the codes of one column of the batch: dropna(), str(code).strip(), non-empty
ObservedCodes(cells) == {Strip(c) : c \in {x \in cells : ~IsNa(x)}} \ {<<>>}

TaxCells(batch) == {batch[i].tax : i \in DOMAIN batch}
IdTypeCells(batch) == {batch[i].idtype : i \in DOMAIN batch}

ExtractTaxonomiesMutOverwrite(batch, cache) ==
    [c \in ObservedCodes(TaxCells(batch)) |-> Desc("Taxonomy Code {}", c)]
ExtractTaxonomiesMutFirstRow(batch, cache) ==
    [c \in {x \in ObservedCodes({batch[1].tax}) : x \notin DOMAIN cache}
        |-> Desc("Taxonomy Code {}", c)]
ExtractTaxonomiesFromDataframe(batch, cache) ==
    [c \in {x \in ObservedCodes(TaxCells(batch)) : x \notin DOMAIN cache}
        |-> Desc("Taxonomy Code {}", c)]

IdentifierCode(type_str) ==
    LET code_num == IF ContainsDotZero(type_str) THEN RemoveDotZero(type_str)
                    ELSE type_str
    IN IF IsDigit(code_num) THEN Format02d(StripLeadingZeros(code_num))
       ELSE <<"0", "1">>

ExtractIdentifiersFromDataframe(batch, cache) ==
    [c \in {x \in ObservedCodes(IdTypeCells(batch)) : x \notin DOMAIN cache}
        |-> [code |-> IdentifierCode(c), desc |-> Desc("Identifier Type {}", c)]]

GetTaxonomyDescription(cache, code) ==
    IF Strip(code) \in DOMAIN cache THEN cache[Strip(code)]
    ELSE Desc("Unknown Taxonomy ({})", code)

GetIdentifierType(cache, type_code) ==
    IF Strip(type_code) \in DOMAIN cache THEN cache[Strip(type_code)]
    ELSE [code |-> <<"0", "1">>, desc |-> Desc("Unknown Type ({})", type_code)]

\* ------------------------------------------------------ document mapper
\* int(postal) raises ValueError
PostalRaises(p) == p # "NaN" /\ p \notin {"12345"}

ExtractTaxonomies(row, cache) ==
    IF IsNa(row.tax) THEN <<>>
    ELSE <<[code |-> Strip(row.tax),
            desc |-> GetTaxonomyDescription(cache, Strip(row.tax))]>>

ExtractIdentifiers(row, cache) ==
    IF IsNa(row.ident) THEN <<>>
    ELSE LET type_code == IF IsNa(row.idtype) THEN <<"1">> ELSE row.idtype
             type_info == GetIdentifierType(cache, type_code)
         IN <<[code |-> type_info.code, desc |-> type_info.desc,
               identifier |-> ConvertNanToNone(row.ident)]>>

\* str(int(row.get('npi'))) if not pd.isna(row.get('npi')) else None
Number(npi) == IF npi = NaNNum THEN NoneNum ELSE npi

\* _convert_dataframe_row_to_document: `raised` when building the document
\* raises; `doc` is then what had been computed before the exception
ConvertDataframeRowToDocument(row, taxCache, idCache) ==
    IF PostalRaises(row.postal)
    THEN [raised |-> TRUE,
          doc |-> [number |-> Number(row.npi), name |-> "None",
                   postal_code |-> "None", taxonomies |-> <<>>,
                   identifiers |-> <<>>]]
    ELSE [raised |-> FALSE,
          doc |-> [number |-> Number(row.npi), name |-> row.name,
                   postal_code |-> IF row.postal = "NaN" THEN "None" ELSE row.postal,
                   taxonomies |-> ExtractTaxonomies(row, taxCache),
                   identifiers |-> ExtractIdentifiers(row, idCache)]]

\* the per-row try/except of insert() and update()
MapOutcomeMutNoKeyCheck(r) == IF r.raised THEN "mapping" ELSE "document"
MapOutcomeMutPartial(r) ==
    IF r.doc.number # NoneNum THEN "document" ELSE "missing"
MapOutcome(r) ==
    IF r.raised THEN "mapping"
    ELSE IF r.doc.number # NoneNum THEN "document"
    ELSE "missing"

ErrorEntry(kind, ref) == [kind |-> kind, ref |-> ref]

\* ------------------------------------------------------------- the store
\* the unique index on "number"
DuplicateKeyMutNoIndex(s, d) == FALSE
DuplicateKey(s, d) == \E e \in s : e.number = d.number

\* collection.insert_many(documents, ordered=False)
RECURSIVE InsertMany(_, _)
InsertMany(s, docs) ==
    IF docs = <<>> THEN [store |-> s, failed |-> FALSE]
    ELSE IF DuplicateKey(s, Head(docs))
         THEN [store |-> InsertMany(s, Tail(docs)).store, failed |-> TRUE]
         ELSE InsertMany(s \cup {Head(docs)}, Tail(docs))

\* collection.replace_one({"number": k}, d, upsert=False)
ReplaceOneMutUpsert(s, k, d) ==
    IF \E e \in s : e.number = k
    THEN [store |-> {e \in s : e.number # k} \cup {d}, matched_count |-> 1]
    ELSE [store |-> s \cup {d}, matched_count |-> 0]
ReplaceOne(s, k, d) ==
    IF \E e \in s : e.number = k
    THEN LET old == CHOOSE e \in s : e.number = k
         IN [store |-> (s \ {old}) \cup {d}, matched_count |-> 1]
    ELSE [store |-> s, matched_count |-> 0]

\* --------------------------------------------------------------- inputs
RECURSIVE SeqsUpTo(_, _)
SeqsUpTo(S, n) ==
    IF n = 0 THEN {<<>>}
    ELSE LET shorter == SeqsUpTo(S, n - 1)
         IN shorter \cup {Append(q, x) : q \in {p \in shorter : Len(p) = n - 1}, x \in S}

\* rows that exercise the store: no codes; a row that yields no document
\* exposes no name, so one name stands for it
StoreRows ==
    {r \in [npi : {NaNNum} \cup Keys, name : {"a", "b"}, postal : {"12345", "A1B"},
            tax : {NaN}, idtype : {NaN}, ident : {NaN}] :
        (r.npi = NaNNum \/ r.postal = "A1B") => r.name = "a"}

\* rows that exercise the caches: one key; a row fills either its taxonomy
\* slot or its identifier slot, a batch combines such rows
CacheRows ==
    {r \in [npi : {1}, name : {"a"}, postal : {"12345"},
            tax : {NaN, TaxKnown, TaxNew},
            idtype : {NaN, <<"5">>, <<"9", ".", "0">>},
            ident : {NaN, <<"A", "7">>}] :
        /\ ~IsNa(r.tax) => (IsNa(r.idtype) /\ IsNa(r.ident))
        /\ ~IsNa(r.idtype) => ~IsNa(r.ident)}

\* batches of three rows (and up to MaxRows + 1)
ScenarioBatches ==
    {b \in SeqsUpTo([npi : {NaNNum} \cup Keys, name : {"a"}, postal : {"12345"},
                     tax : {NaN, TaxKnown, TaxNew}, idtype : {NaN},
                     ident : {NaN}],
                    MaxRows + 1) : Len(b) >= 3}

\* ------------------------------------------------------- archive reader
MaxMembers == 2
MaxChunks == 2

\* str.lower() on one character
Lower(ch) ==
    CASE ch = "A" -> "a"
      [] ch = "B" -> "b"
      [] ch = "C" -> "c"
      [] ch = "D" -> "d"
      [] ch = "E" -> "e"
      [] ch = "F" -> "f"
      [] ch = "G" -> "g"
      [] ch = "H" -> "h"
      [] ch = "I" -> "i"
      [] ch = "J" -> "j"
      [] ch = "K" -> "k"
      [] ch = "L" -> "l"
      [] ch = "M" -> "m"
      [] ch = "N" -> "n"
      [] ch = "O" -> "o"
      [] ch = "P" -> "p"
      [] ch = "Q" -> "q"
      [] ch = "R" -> "r"
      [] ch = "S" -> "s"
      [] ch = "T" -> "t"
      [] ch = "U" -> "u"
      [] ch = "V" -> "v"
      [] ch = "W" -> "w"
      [] ch = "X" -> "x"
      [] ch = "Y" -> "y"
      [] ch = "Z" -> "z"
      [] OTHER -> ch
LowerStr(str) == [i \in DOMAIN str |-> Lower(str[i])]

StartsWith(str, prefix) ==
    /\ Len(prefix) <= Len(str)
    /\ SubSeq(str, 1, Len(prefix)) = prefix
EndsWith(str, suffix) ==
    /\ Len(suffix) <= Len(str)
    /\ SubSeq(str, Len(str) - Len(suffix) + 1, Len(str)) = suffix

\* what the path names: nothing, a file with another extension, a .csv
\* file, a .zip file that is no archive, an archive, an archive whose CSV
\* member data is damaged (central directory intact)
Source(exists, ext, archive, members) ==
    [exists |-> exists, ext |-> ext, archive |-> archive, members |-> members]

\* _validate_file raises: the path is missing, ZipFile() rejects the file,
\* or the extension is neither .zip nor .csv; what testzip() returns for a
\* damaged member is dropped
ValidateFile(source) ==
    IF ~source.exists THEN TRUE
    ELSE IF source.ext = "zip" THEN source.archive = "not_a_zip"
    ELSE source.ext # "csv"

IsCsv(f) == EndsWith(LowerStr(f), <<".", "c", "s", "v">>)
IsPrefixedCsv(f, prefix) == IsCsv(f) /\ StartsWith(LowerStr(f), prefix)

\* _find_csv_file: the first prefixed .csv member, else the first .csv
\* member, else ValueError
FindCsvFileMutNoFallback(members, prefix) ==
    LET Test(f) == IsPrefixedCsv(f, prefix)
        csv_files == SelectSeq(members, Test)
    IN IF csv_files # <<>>
       THEN [raised |-> FALSE, csv_filename |-> Head(csv_files)]
       ELSE [raised |-> TRUE, csv_filename |-> None]
FindCsvFile(members, prefix) ==
    LET Test(f) == IsPrefixedCsv(f, prefix)
        csv_files == SelectSeq(members, Test)
        all_csv_files == SelectSeq(members, IsCsv)
    IN IF csv_files # <<>>
       THEN [raised |-> FALSE, csv_filename |-> Head(csv_files)]
       ELSE IF all_csv_files # <<>>
       THEN [raised |-> FALSE, csv_filename |-> Head(all_csv_files)]
       ELSE [raised |-> TRUE, csv_filename |-> None]

\* ---------------------------------------------------- column normalizer
MaxHeaderLen == 4

LowerLetters ==
    {"a", "b", "c", "d", "e", "f", "g", "h", "i", "j", "k", "l", "m", "n",
     "o", "p", "q", "r", "s", "t", "u", "v", "w", "x", "y", "z"}

RECURSIVE DropLeading(_, _)
DropLeading(str, class) ==
    IF str # <<>> /\ Head(str) \in class THEN DropLeading(Tail(str), class)
    ELSE str

RECURSIVE DropTrailing(_, _)
DropTrailing(str, class) ==
    IF str # <<>> /\ str[Len(str)] \in class
    THEN DropTrailing(SubSeq(str, 1, Len(str) - 1), class)
    ELSE str

\* re.sub(r'<class>+', with, str)
RECURSIVE ReplaceRuns(_, _, _)
ReplaceRuns(str, class, with) ==
    IF str = <<>> THEN <<>>
    ELSE IF Head(str) \in class
    THEN <<with>> \o ReplaceRuns(DropLeading(str, class), class, with)
    ELSE <<Head(str)>> \o ReplaceRuns(Tail(str), class, with)

\* re.sub(r'[\(\)]', '', str)
RECURSIVE RemoveChars(_, _)
RemoveChars(str, class) ==
    IF str = <<>> THEN <<>>
    ELSE IF Head(str) \in class THEN RemoveChars(Tail(str), class)
    ELSE <<Head(str)>> \o RemoveChars(Tail(str), class)

\* re.sub(r'[^a-zA-Z0-9_]', '_', str)
ReplaceNonWord(str) ==
    LET \* [a-zA-Z0-9_]
        WordChars ==
            LowerLetters
            \cup {"A", "B", "C", "D", "E", "F", "G", "H", "I", "J", "K", "L", "M",
                  "N", "O", "P", "Q", "R", "S", "T", "U", "V", "W", "X", "Y", "Z"}
            \cup Digits \cup {"_"}
    IN [i \in DOMAIN str |-> IF str[i] \in WordChars THEN str[i] ELSE "_"]

\* normalize_columns on one column name; the older copy of the loader
\* stops after removing the parentheses
NormalizeColumnsMutLegacy(col) ==
    RemoveChars(ReplaceRuns(LowerStr(col), Whitespace, "_"), {"(", ")"})
NormalizeColumns(col) ==
    LET snake == ReplaceRuns(LowerStr(col), Whitespace, "_")
        bare == RemoveChars(snake, {"(", ")"})
        word == ReplaceNonWord(bare)
        single == ReplaceRuns(word, {"_"}, "_")
    IN DropTrailing(DropLeading(single, {"_"}), {"_"})

\* ------------------------------------------------------ the npi column
MaxDigits == 3

\* str(int(row.get('npi'))): the decimal digits of the integer
NumberString(cell) ==
    IF cell.dtype = "str" THEN StripLeadingZeros(cell.text) ELSE cell.value

\* collection.find_one({"number": str(npi)})
FindOne(collection, number) ==
    IF \E doc \in collection : doc.number = number
    THEN CHOOSE doc \in collection : doc.number = number
    ELSE None

\* ------------------------------------------------------------ the dates
\* a date cell: missing, "MM/DD/YYYY" text, "YYYY-MM-DD" text (also what a
\* parsed Timestamp prints as), or other text
NaDate == [form |-> "nan", m |-> 0, d |-> 0, y |-> 0]

\* the fields form a date of the calendar
ValidDate(date) ==
    LET m == date.m
        y == date.y
        DaysInMonth ==
            IF m \in {4, 6, 9, 11} THEN 30
            ELSE IF m # 2 THEN 31
            ELSE IF (y % 4 = 0 /\ y % 100 # 0) \/ y % 400 = 0 THEN 29
            ELSE 28
    IN /\ date.y \in 1..9999
       /\ date.m \in 1..12
       /\ date.d \in 1..DaysInMonth

\* datetime.strptime(str(date_str), "%m/%d/%Y") succeeds
StrptimeAccepts(cell) == cell.form = "slash" /\ ValidDate(cell)

\* _parse_date: None for a missing value, the ISO text of a MM/DD/YYYY
\* date, otherwise the value's own text
ParseDateMutNoRaw(cell) ==
    IF cell.form = "nan" THEN NaDate
    ELSE IF StrptimeAccepts(cell) THEN [cell EXCEPT !.form = "iso"]
    ELSE NaDate
ParseDate(cell) ==
    IF cell.form = "nan" THEN NaDate
    ELSE IF StrptimeAccepts(cell) THEN [cell EXCEPT !.form = "iso"]
    ELSE cell

\* datetime.fromisoformat(text.replace('Z', '')) succeeds
FromIsoFormatAccepts(parsed) == parsed.form = "iso" /\ ValidDate(parsed)

\* datetime.timestamp() of a naive datetime goes through local time and
\* may raise at the limits of the year range, depending on the time zone
TimestampMayRaise(parsed) == parsed.y \in {1, 9999}

\* the values created_epoch / last_updated_epoch can take: every exception
\* of the conversion is swallowed and leaves None
EpochOutcomes(parsed) ==
    LET NullEpoch == [null |-> TRUE, date |-> <<>>]
        EpochOf == [null |-> FALSE, date |-> <<parsed.y, parsed.m, parsed.d>>]
    IN IF parsed.form = "nan" THEN {NullEpoch}
       ELSE IF ~FromIsoFormatAccepts(parsed) THEN {NullEpoch}
       ELSE IF TimestampMayRaise(parsed) THEN {NullEpoch, EpochOf}
       ELSE {EpochOf}

\* ------------------------------------------------------------ the phones
MaxPhoneLen == 11

\* str(float): the digits and ".0"
FloatText(cell) == cell.text \o <<".", "0">>

\* _format_phone
FormatPhoneMutFloatText(phone) ==
    IF phone.dtype = "nan" THEN None
    ELSE LET phone_str == IF phone.dtype = "float64" THEN FloatText(phone)
                          ELSE phone.text
         IN IF Len(phone_str) = 10
            THEN SubSeq(phone_str, 1, 3) \o <<"-">> \o SubSeq(phone_str, 4, 6)
                 \o <<"-">> \o SubSeq(phone_str, 7, Len(phone_str))
            ELSE phone_str
FormatPhone(phone) ==
    IF phone.dtype = "nan" THEN None
    ELSE LET phone_str == IF phone.dtype = "float64"
                          THEN StripLeadingZeros(RemoveDotZero(FloatText(phone)))
                          ELSE phone.text
         IN IF Len(phone_str) = 10
            THEN SubSeq(phone_str, 1, 3) \o <<"-">> \o SubSeq(phone_str, 4, 6)
                 \o <<"-">> \o SubSeq(phone_str, 7, Len(phone_str))
            ELSE phone_str

\* rows for the lookups: a code cell may be blank, an identifier may lack
\* its type code
LookupRows ==
    {r \in [npi : {1}, name : {"a"}, postal : {"12345"},
            tax : {NaN, TaxNew, <<" ">>},
            idtype : {NaN, <<"9", ".", "0">>},
            ident : {NaN, <<"A", "7">>}] :
        /\ ~IsNa(r.tax) => (IsNa(r.idtype) /\ IsNa(r.ident))
        /\ ~IsNa(r.idtype) => ~IsNa(r.ident)}

\* ------------------------------------------------------------ the slots
\* the numbered columns the mapper scans (15 and 50 in the source), and one
\* column beyond them in the rows
TaxonomySlots == 2
IdentifierSlots == 2

\* the slot contributes an identifier entry
IdentifierSlotPresentMutNeedsType(slot) == ~IsNa(slot.ident) /\ ~IsNa(slot.idtype)
IdentifierSlotPresent(slot) == ~IsNa(slot.ident)

\* _extract_taxonomies: the entries of the columns 1..TaxonomySlots
RECURSIVE ExtractTaxonomySlots(_, _, _)
ExtractTaxonomySlots(slots, cache, i) ==
    IF i > TaxonomySlots THEN <<>>
    ELSE LET slot == slots[i]
         IN (IF IsNa(slot.code) THEN <<>>
             ELSE <<[code |-> Strip(slot.code),
                     desc |-> GetTaxonomyDescription(cache, Strip(slot.code)),
                     primary |-> (slot.switch = <<"Y">>)]>>)
            \o ExtractTaxonomySlots(slots, cache, i + 1)

\* _extract_identifiers: the entries of the columns 1..IdentifierSlots
RECURSIVE ExtractIdentifierSlots(_, _, _)
ExtractIdentifierSlots(slots, cache, i) ==
    IF i > IdentifierSlots THEN <<>>
    ELSE LET slot == slots[i]
             type_code == IF IsNa(slot.idtype) THEN <<"1">> ELSE slot.idtype
             type_info == GetIdentifierType(cache, type_code)
         IN (IF ~IdentifierSlotPresent(slot) THEN <<>>
             ELSE <<[code |-> type_info.code, desc |-> type_info.desc,
                     identifier |-> ConvertNanToNone(slot.ident)]>>)
            \o ExtractIdentifierSlots(slots, cache, i + 1)

\* ------------------------------------------------- identifier type tokens
MaxTokenLen == 4

\* ------------------------------------------------- addresses in the pipeline
\* the column names _extract_addresses reads for the mailing address
MailingKeys ==
    [line1 |->
        <<"p", "r", "o", "v", "i", "d", "e", "r", "_", "f", "i", "r", "s",
          "t", "_", "l", "i", "n", "e", "_", "b", "u", "s", "i", "n", "e",
          "s", "s", "_", "m", "a", "i", "l", "i", "n", "g", "_", "a", "d",
          "d", "r", "e", "s", "s">>,
     line2 |->
        <<"p", "r", "o", "v", "i", "d", "e", "r", "_", "s", "e", "c", "o",
          "n", "d", "_", "l", "i", "n", "e", "_", "b", "u", "s", "i", "n",
          "e", "s", "s", "_", "m", "a", "i", "l", "i", "n", "g", "_", "a",
          "d", "d", "r", "e", "s", "s">>,
     city |->
        <<"p", "r", "o", "v", "i", "d", "e", "r", "_", "b", "u", "s", "i",
          "n", "e", "s", "s", "_", "m", "a", "i", "l", "i", "n", "g", "_",
          "a", "d", "d", "r", "e", "s", "s", "_", "c", "i", "t", "y", "_",
          "n", "a", "m", "e">>,
     state |->
        <<"p", "r", "o", "v", "i", "d", "e", "r", "_", "b", "u", "s", "i",
          "n", "e", "s", "s", "_", "m", "a", "i", "l", "i", "n", "g", "_",
          "a", "d", "d", "r", "e", "s", "s", "_", "s", "t", "a", "t", "e",
          "_", "n", "a", "m", "e">>,
     postal |->
        <<"p", "r", "o", "v", "i", "d", "e", "r", "_", "b", "u", "s", "i",
          "n", "e", "s", "s", "_", "m", "a", "i", "l", "i", "n", "g", "_",
          "a", "d", "d", "r", "e", "s", "s", "_", "p", "o", "s", "t", "a",
          "l", "_", "c", "o", "d", "e">>,
     phone |->
        <<"p", "r", "o", "v", "i", "d", "e", "r", "_", "b", "u", "s", "i",
          "n", "e", "s", "s", "_", "m", "a", "i", "l", "i", "n", "g", "_",
          "a", "d", "d", "r", "e", "s", "s", "_", "t", "e", "l", "e", "p",
          "h", "o", "n", "e", "_", "n", "u", "m", "b", "e", "r">>,
     fax |->
        <<"p", "r", "o", "v", "i", "d", "e", "r", "_", "b", "u", "s", "i",
          "n", "e", "s", "s", "_", "m", "a", "i", "l", "i", "n", "g", "_",
          "a", "d", "d", "r", "e", "s", "s", "_", "f", "a", "x", "_", "n",
          "u", "m", "b", "e", "r">>,
     country |->
        <<"p", "r", "o", "v", "i", "d", "e", "r", "_", "b", "u", "s", "i",
          "n", "e", "s", "s", "_", "m", "a", "i", "l", "i", "n", "g", "_",
          "a", "d", "d", "r", "e", "s", "s", "_", "c", "o", "u", "n", "t",
          "r", "y", "_", "c", "o", "d", "e", "_", "i", "f", "_", "o", "u",
          "t", "s", "i", "d", "e", "_", "u", ".", "s", ".">>]

\* the column names _extract_addresses reads for the practice location
LocationKeys ==
    [line1 |->
        <<"p", "r", "o", "v", "i", "d", "e", "r", "_", "f", "i", "r", "s",
          "t", "_", "l", "i", "n", "e", "_", "b", "u", "s", "i", "n", "e",
          "s", "s", "_", "p", "r", "a", "c", "t", "i", "c", "e", "_", "l",
          "o", "c", "a", "t", "i", "o", "n", "_", "a", "d", "d", "r", "e",
          "s", "s">>,
     line2 |->
        <<"p", "r", "o", "v", "i", "d", "e", "r", "_", "s", "e", "c", "o",
          "n", "d", "_", "l", "i", "n", "e", "_", "b", "u", "s", "i", "n",
          "e", "s", "s", "_", "p", "r", "a", "c", "t", "i", "c", "e", "_",
          "l", "o", "c", "a", "t", "i", "o", "n", "_", "a", "d", "d", "r",
          "e", "s", "s">>,
     city |->
        <<"p", "r", "o", "v", "i", "d", "e", "r", "_", "b", "u", "s", "i",
          "n", "e", "s", "s", "_", "p", "r", "a", "c", "t", "i", "c", "e",
          "_", "l", "o", "c", "a", "t", "i", "o", "n", "_", "a", "d", "d",
          "r", "e", "s", "s", "_", "c", "i", "t", "y", "_", "n", "a", "m",
          "e">>,
     state |->
        <<"p", "r", "o", "v", "i", "d", "e", "r", "_", "b", "u", "s", "i",
          "n", "e", "s", "s", "_", "p", "r", "a", "c", "t", "i", "c", "e",
          "_", "l", "o", "c", "a", "t", "i", "o", "n", "_", "a", "d", "d",
          "r", "e", "s", "s", "_", "s", "t", "a", "t", "e", "_", "n", "a",
          "m", "e">>,
     postal |->
        <<"p", "r", "o", "v", "i", "d", "e", "r", "_", "b", "u", "s", "i",
          "n", "e", "s", "s", "_", "p", "r", "a", "c", "t", "i", "c", "e",
          "_", "l", "o", "c", "a", "t", "i", "o", "n", "_", "a", "d", "d",
          "r", "e", "s", "s", "_", "p", "o", "s", "t", "a", "l", "_", "c",
          "o", "d", "e">>,
     phone |->
        <<"p", "r", "o", "v", "i", "d", "e", "r", "_", "b", "u", "s", "i",
          "n", "e", "s", "s", "_", "p", "r", "a", "c", "t", "i", "c", "e",
          "_", "l", "o", "c", "a", "t", "i", "o", "n", "_", "a", "d", "d",
          "r", "e", "s", "s", "_", "t", "e", "l", "e", "p", "h", "o", "n",
          "e", "_", "n", "u", "m", "b", "e", "r">>,
     fax |->
        <<"p", "r", "o", "v", "i", "d", "e", "r", "_", "b", "u", "s", "i",
          "n", "e", "s", "s", "_", "p", "r", "a", "c", "t", "i", "c", "e",
          "_", "l", "o", "c", "a", "t", "i", "o", "n", "_", "a", "d", "d",
          "r", "e", "s", "s", "_", "f", "a", "x", "_", "n", "u", "m", "b",
          "e", "r">>,
     country |->
        <<"p", "r", "o", "v", "i", "d", "e", "r", "_", "b", "u", "s", "i",
          "n", "e", "s", "s", "_", "p", "r", "a", "c", "t", "i", "c", "e",
          "_", "l", "o", "c", "a", "t", "i", "o", "n", "_", "a", "d", "d",
          "r", "e", "s", "s", "_", "c", "o", "u", "n", "t", "r", "y", "_",
          "c", "o", "d", "e", "_", "i", "f", "_", "o", "u", "t", "s", "i",
          "d", "e", "_", "u", ".", "s", ".">>]

\* the headers of the file for the two kinds of address
AddressHeaders ==
    [MAILING |->
        [line1 |->
            <<"P", "r", "o", "v", "i", "d", "e", "r", " ", "F", "i", "r",
              "s", "t", " ", "L", "i", "n", "e", " ", "B", "u", "s", "i",
              "n", "e", "s", "s", " ", "M", "a", "i", "l", "i", "n", "g",
              " ", "A", "d", "d", "r", "e", "s", "s">>,
         country |->
            <<"P", "r", "o", "v", "i", "d", "e", "r", " ", "B", "u", "s",
              "i", "n", "e", "s", "s", " ", "M", "a", "i", "l", "i", "n",
              "g", " ", "A", "d", "d", "r", "e", "s", "s", " ", "C", "o",
              "u", "n", "t", "r", "y", " ", "C", "o", "d", "e", " ", "(",
              "I", "f", " ", "o", "u", "t", "s", "i", "d", "e", " ", "U",
              ".", "S", ".", ")">>],
     LOCATION |->
        [line1 |->
            <<"P", "r", "o", "v", "i", "d", "e", "r", " ", "F", "i", "r",
              "s", "t", " ", "L", "i", "n", "e", " ", "B", "u", "s", "i",
              "n", "e", "s", "s", " ", "P", "r", "a", "c", "t", "i", "c",
              "e", " ", "L", "o", "c", "a", "t", "i", "o", "n", " ", "A",
              "d", "d", "r", "e", "s", "s">>,
         country |->
            <<"P", "r", "o", "v", "i", "d", "e", "r", " ", "B", "u", "s",
              "i", "n", "e", "s", "s", " ", "P", "r", "a", "c", "t", "i",
              "c", "e", " ", "L", "o", "c", "a", "t", "i", "o", "n", " ",
              "A", "d", "d", "r", "e", "s", "s", " ", "C", "o", "u", "n",
              "t", "r", "y", " ", "C", "o", "d", "e", " ", "(", "I", "f",
              " ", "o", "u", "t", "s", "i", "d", "e", " ", "U", ".", "S",
              ".", ")">>]]

\* one-row chunks as the reader yields them: first line and country code
\* of each address, the country columns under the file's header or
\* already under the name the mapper reads
AddressChunks ==
    {(AddressHeaders.MAILING.line1 :> ml) @@ (mh :> mc)
     @@ (AddressHeaders.LOCATION.line1 :> ll) @@ (lh :> lc) :
        ml \in {NaN, <<"1", " ", "A">>}, ll \in {NaN, <<"1", " ", "A">>},
        mc \in {NaN, <<"U", "S">>, <<"C", "A">>},
        lc \in {NaN, <<"U", "S">>, <<"C", "A">>},
        mh \in {AddressHeaders.MAILING.country, MailingKeys.country},
        lh \in {AddressHeaders.LOCATION.country, LocationKeys.country}}

\* df.rename(columns=dict(zip(df.columns, cols)))
RenameColumns(row) ==
    [c \in {NormalizeColumns(h) : h \in DOMAIN row} |->
        row[CHOOSE h \in DOMAIN row : NormalizeColumns(h) = c]]

\* row.get(key)
RowGet(row, key) == IF key \in DOMAIN row THEN row[key] ELSE None
\* pd.isna on the result of row.get
IsMissing(v) == IsNa(v) \/ v = None

\* one address entry of _extract_addresses
AddressEntry(row, purpose, key) ==
    [country_code |-> ConvertNanToNone(RowGet(row, key.country)),
     country_name |-> IF RowGet(row, key.country) = <<"U", "S">>
                      THEN "United States" ELSE "None",
     address_purpose |-> purpose,
     address_type |-> "DOM",
     address_1 |-> ConvertNanToNone(RowGet(row, key.line1)),
     address_2 |-> ConvertNanToNone(RowGet(row, key.line2)),
     city |-> ConvertNanToNone(RowGet(row, key.city)),
     state |-> ConvertNanToNone(RowGet(row, key.state)),
     postal_code |-> IF IsMissing(RowGet(row, key.postal)) THEN None
                     ELSE StripLeadingZeros(RowGet(row, key.postal)),
     telephone_number |-> IF key.phone \in DOMAIN row
                          THEN FormatPhone(row[key.phone]) ELSE None,
     fax_number |-> IF key.fax \in DOMAIN row
                    THEN FormatPhone(row[key.fax]) ELSE None]

ExtractAddresses(row) ==
    (IF IsMissing(RowGet(row, MailingKeys.line1)) THEN <<>>
     ELSE <<AddressEntry(row, "MAILING", MailingKeys)>>)
    \o
    (IF IsMissing(RowGet(row, LocationKeys.line1)) THEN <<>>
     ELSE <<AddressEntry(row, "LOCATION", LocationKeys)>>)

\* ---------------------------------------------------------------- state
VARIABLES
    store,                  \* the collection: a set of documents
    taxonomy_descriptions,  \* in-memory taxonomy cache
    identifier_types,       \* in-memory identifier-type cache
    taxonomy_cache_file,    \* taxonomy_codes.json
    identifier_cache_file,  \* identifier_types.json
    pc,                     \* position of the running call
    op,                     \* "insert" | "update" | "none"
    df,                     \* the batch passed to the call
    update_cache,           \* the update_cache argument
    cache_update_result,    \* counts returned by the cache refresh
    index,                  \* loop position (row, or document in the fallback)
    documents,              \* insert(): valid documents of the batch
    errors,                 \* error entries of the call
    inserted_count,
    updated_count,
    not_found_count,
    success,
    bulk_failed,            \* insert(): insert_many raised
    submitted,              \* per valid document: times handed to the store
    counted,                \* per valid document: its share of inserted_count
    store0,                 \* the collection when the call started
    firstIns,               \* per key: outcome of the first insert call that
                            \* brought the key to a store that lacked it
    taxonomy0,              \* the taxonomy cache when the call started
    saves,                  \* outcome of the cache file writes of the call
    save_failed,            \* some cache file write has failed so far
    boot,                   \* the cache file branches construction took
    loader,                 \* the NPI_Load object and its parse run
    arg,                    \* argument of the function under test
    out                     \* its result

storeVars == <<store>>
cacheVars == <<taxonomy_descriptions, identifier_types,
               taxonomy_cache_file, identifier_cache_file>>
\* the parse run and the functions under test: untouched by the engine
auxVars == <<boot, loader, arg, out>>
argVars == <<op, df, update_cache, store0, taxonomy0>>
countVars == <<inserted_count, updated_count, not_found_count>>
vars == <<store, taxonomy_descriptions, identifier_types, taxonomy_cache_file,
          identifier_cache_file, pc, op, df, update_cache, cache_update_result,
          index, documents, errors, inserted_count, updated_count,
          not_found_count, success, bulk_failed, submitted, counted, store0,
          firstIns, taxonomy0, saves, save_failed, boot, loader, arg, out>>

NoCacheUpdates == [taxonomies_added |-> 0, identifiers_added |-> 0]
NoAttempt == [tried |-> FALSE, counted |-> 0, errs |-> 0]
NoSaves == [taxonomy |-> "none", identifier |-> "none"]
NoLoader == [pc |-> "none"]
\* the cache file branches taken at construction, before and after it
NotBooted == [taxonomy |-> "none", identifier |-> "none"]
BootedAbsent == [taxonomy |-> "absent", identifier |-> "absent"]

\* the engine between calls, after construction
EngineIdle ==
    /\ op = "none"
    /\ df = <<>>
    /\ update_cache = FALSE
    /\ cache_update_result = NoCacheUpdates
    /\ index = 0
    /\ documents = <<>>
    /\ errors = <<>>
    /\ inserted_count = 0
    /\ updated_count = 0
    /\ not_found_count = 0
    /\ success = FALSE
    /\ bulk_failed = FALSE
    /\ submitted = <<>>
    /\ counted = <<>>
    /\ store0 = {}
    /\ taxonomy0 = <<>>
    /\ saves = NoSaves
    /\ firstIns = [k \in Keys |-> NoAttempt]

\* NPI_Mongo.__init__ on an empty collection with no cache files: the unique
\* index exists, both caches are the defaults and have been saved
Init ==
    /\ store = {}
    /\ taxonomy_descriptions = DefaultTaxonomies
    /\ identifier_types = DefaultIdentifiers
    /\ taxonomy_cache_file = File(DefaultTaxonomies)
    /\ identifier_cache_file = File(DefaultIdentifiers)
    /\ pc = "idle"
    /\ op = "none"
    /\ df = <<>>
    /\ update_cache = FALSE
    /\ cache_update_result = NoCacheUpdates
    /\ index = 0
    /\ documents = <<>>
    /\ errors = <<>>
    /\ inserted_count = 0
    /\ updated_count = 0
    /\ not_found_count = 0
    /\ success = FALSE
    /\ bulk_failed = FALSE
    /\ submitted = <<>>
    /\ counted = <<>>
    /\ store0 = {}
    /\ firstIns = [k \in Keys |-> NoAttempt]
    /\ taxonomy0 = <<>>
    /\ saves = NoSaves
    /\ save_failed = FALSE
    /\ boot = BootedAbsent
    /\ loader = NoLoader
    /\ arg = <<>>
    /\ out = <<>>

\* before NPI_Mongo.__init__ loads the caches: the collection is empty and
\* the cache directory holds any combination of cache files
InitBoot ==
    /\ EngineIdle
    /\ pc = "boot"
    /\ store = {}
    /\ taxonomy_descriptions = <<>>
    /\ identifier_types = <<>>
    \* the cache directory before construction: a cache file is absent,
    \* corrupt, holds the defaults or holds other entries only
    /\ taxonomy_cache_file \in
          {AbsentFile, [exists |-> TRUE, valid |-> FALSE, data |-> <<>>],
           File(DefaultTaxonomies),
           File(TaxNew :> Desc("Taxonomy Code {}", TaxNew))}
    /\ identifier_cache_file \in
          {AbsentFile, [exists |-> TRUE, valid |-> FALSE, data |-> <<>>],
           File(DefaultIdentifiers),
           File(<<"9", ".", "0">> :>
                   [code |-> <<"0", "9">>,
                    desc |-> Desc("Identifier Type {}", <<"9", ".", "0">>)])}
    /\ save_failed = FALSE
    /\ boot = NotBooted
    /\ loader = NoLoader
    /\ arg = <<>>
    /\ out = <<>>

\* NPI_Mongo.__init__: both caches are loaded or seeded
Bootstrap ==
    /\ pc = "boot"
    /\ \E o1 \in SaveOutcomes, o2 \in SaveOutcomes :
        LET t == LoadCache(taxonomy_cache_file, DefaultTaxonomies, o1)
            i == LoadCache(identifier_cache_file, DefaultIdentifiers, o2)
        IN /\ taxonomy_descriptions' = t.cache
           /\ taxonomy_cache_file' = t.file
           /\ identifier_types' = i.cache
           /\ identifier_cache_file' = i.file
           /\ save_failed' = ("failed" \in {t.save, i.save})
    /\ boot' = [taxonomy |-> LoadBranch(taxonomy_cache_file),
                identifier |-> LoadBranch(identifier_cache_file)]
    /\ pc' = "idle"
    /\ UNCHANGED <<storeVars, argVars, countVars, cache_update_result, index,
                   documents, errors, success, bulk_failed, submitted, counted,
                   firstIns, saves, loader, arg, out>>

\* parse_and_insert is entered: nothing is constructed yet
InitLoad ==
    /\ EngineIdle
    /\ pc = "boot"
    /\ store = {}
    /\ taxonomy_descriptions = <<>>
    /\ identifier_types = <<>>
    /\ \E dir \in {<<AbsentFile, AbsentFile>>,
                    <<File(DefaultTaxonomies), File(DefaultIdentifiers)>>} :
          /\ taxonomy_cache_file = dir[1]
          /\ identifier_cache_file = dir[2]
    /\ save_failed = FALSE
    /\ boot = NotBooted
    /\ LET \* member names of the archives
           MemberNames ==
               {<<"N", "p", ".", "c", "s", "v">>,
                <<"n", "p", "2", ".", "c", "s", "v">>,
                <<"a", ".", "C", "S", "V">>, <<"n", "p", ".", "t", "x", "t">>}
           Sources ==
               {Source(FALSE, "zip", "none", <<>>),
                Source(TRUE, "other", "none", <<>>),
                Source(TRUE, "csv", "none", <<>>),
                Source(TRUE, "zip", "not_a_zip", <<>>)}
               \cup {Source(TRUE, "zip", a, m) :
                        a \in {"ok", "bad_member"},
                        m \in SeqsUpTo(MemberNames, MaxMembers)}
       IN \E source \in Sources, prefix \in {<<>>, <<"N", "P">>, <<"q">>} :
          loader = [pc |-> "start", source |-> source, prefix_arg |-> prefix,
                    prefix |-> <<>>, csv_filename |-> None,
                    zip_open |-> FALSE, csv_open |-> FALSE, chunks_left |-> 0,
                    rows |-> 0,
                    cache_dir0 |-> <<taxonomy_cache_file, identifier_cache_file>>]
    /\ arg = <<>>
    /\ out = <<>>

engineVars == <<storeVars, cacheVars, argVars, countVars, pc, cache_update_result,
                index, documents, errors, success, bulk_failed, submitted,
                counted, firstIns, saves, save_failed>>

\* NPI_Load.__init__
Construct ==
    /\ loader.pc = "start"
    /\ LET prefix == LowerStr(loader.prefix_arg)
           is_zip == loader.source.ext = "zip"
           found == FindCsvFile(loader.source.members, prefix)
       IN loader' =
            IF ValidateFile(loader.source)
            THEN [loader EXCEPT !.pc = "failed", !.prefix = prefix]
            ELSE IF ~is_zip
            THEN [loader EXCEPT !.pc = "constructed", !.prefix = prefix]
            ELSE IF found.raised
            THEN [loader EXCEPT !.pc = "failed", !.prefix = prefix]
            ELSE [loader EXCEPT !.pc = "constructed", !.prefix = prefix,
                                !.csv_filename = found.csv_filename]
    /\ UNCHANGED <<engineVars, boot, arg, out>>

\* get_mongo(): the engine is constructed after the loader
GetMongo ==
    /\ loader.pc = "constructed"
    /\ Bootstrap

\* first next() of read_csv_in_chunks: _get_file_handle, before the try.
\* Opening a damaged member may raise after the archive was opened.
OpenStream ==
    /\ loader.pc = "constructed"
    /\ pc = "idle"
    /\ \E n \in 1..MaxChunks, opened \in BOOLEAN :
        /\ ~opened => loader.source.archive = "bad_member"
        /\ loader' =
             IF opened
             THEN [loader EXCEPT !.pc = "opened",
                                 !.zip_open = (loader.source.ext = "zip"),
                                 !.csv_open = TRUE, !.chunks_left = n]
             ELSE [loader EXCEPT !.pc = "failed", !.zip_open = TRUE]
    /\ UNCHANGED <<engineVars, boot, arg, out>>

\* the generator runs to its next yield, to exhaustion or into an error
\* of the reader; the finally block closes both handles
NextChunk ==
    /\ loader.pc \in {"opened", "inserting"}
    /\ pc = "idle"
    /\ \E read \in BOOLEAN :
        /\ ~read => loader.source.archive = "bad_member"
        /\ loader' =
             IF ~read
             THEN [loader EXCEPT !.pc = "failed", !.zip_open = FALSE,
                                 !.csv_open = FALSE]
             ELSE IF loader.chunks_left = 0
             THEN [loader EXCEPT !.pc = "done", !.zip_open = FALSE,
                                 !.csv_open = FALSE]
             ELSE [loader EXCEPT !.pc = "chunk", !.chunks_left = @ - 1]
    /\ UNCHANGED <<engineVars, boot, arg, out>>

\* the break after a chunk drops the generator, which CPython finalises at
\* once: GeneratorExit at the yield runs the finally block
Break ==
    /\ loader.pc = "inserting"
    /\ pc = "idle"
    /\ loader' = [loader EXCEPT !.pc = "done", !.zip_open = FALSE,
                                !.csv_open = FALSE]
    /\ UNCHANGED <<engineVars, boot, arg, out>>

\* the engine as constructed on an empty collection and cache directory,
\* no parse run
Constructed ==
    /\ EngineIdle
    /\ pc = "idle"
    /\ store = {}
    /\ taxonomy_descriptions = DefaultTaxonomies
    /\ identifier_types = DefaultIdentifiers
    /\ taxonomy_cache_file = File(DefaultTaxonomies)
    /\ identifier_cache_file = File(DefaultIdentifiers)
    /\ save_failed = FALSE
    /\ boot = BootedAbsent
    /\ loader = NoLoader

NoResult == [calls |-> 0]

\* a column name is about to be normalized
InitNormalize ==
    /\ Constructed
    /\ arg \in SeqsUpTo({"A", "a", "1", " ", "(", "_", "."}, MaxHeaderLen)
    /\ out = NoResult

\* normalize_columns on the column name
Normalize ==
    /\ out.calls = 0
    /\ out' = [calls |-> 1, cols |-> NormalizeColumns(arg)]
    /\ UNCHANGED <<engineVars, boot, loader, arg>>

\* normalize_columns on its own result
NormalizeAgain ==
    /\ out.calls = 1
    /\ out' = [calls |-> 2, cols |-> NormalizeColumns(out.cols), first |-> out.cols]
    /\ UNCHANGED <<engineVars, boot, loader, arg>>

\* a row with a present identifier is about to be inserted
InitNumber ==
    /\ Constructed
    \* the identifier as written in the CSV, and the dtype pandas gives its
    \* column: int64, float64 when the column has gaps, str when asked to
    /\ \E digits \in SeqsUpTo({"0", "1", "2"}, MaxDigits) \ {<<>>},
          dtype \in {"int64", "float64", "str"} :
          arg = [digits |-> digits, dtype |-> dtype]
    /\ out = NoResult

\* insert() of the row, as far as `number` goes: the document is mapped
\* and stored
InsertNumber ==
    /\ store = {}
    /\ LET \* the value of row.get('npi'): a number for the numeric
           \* dtypes, the text as written for str
           cell == IF arg.dtype = "str"
                   THEN [dtype |-> arg.dtype, text |-> arg.digits]
                   ELSE [dtype |-> arg.dtype,
                         value |-> StripLeadingZeros(arg.digits)]
       IN store' = {[number |-> NumberString(cell)]}
    /\ UNCHANGED <<cacheVars, argVars, countVars, pc, cache_update_result,
                   index, documents, errors, success, bulk_failed, submitted,
                   counted, firstIns, saves, save_failed, auxVars>>

\* find_by_npi with the identifier's digit string
FindByNpi ==
    /\ store # {}
    /\ out.calls = 0
    /\ out' = [calls |-> 1, result |-> FindOne(store, arg.digits)]
    /\ UNCHANGED <<engineVars, boot, loader, arg>>

\* a row with its two date cells is about to be mapped
InitDates ==
    /\ Constructed
    /\ LET DateCells ==
               {NaDate, [form |-> "text", m |-> 0, d |-> 0, y |-> 0]}
               \cup [form : {"slash", "iso"}, m : {1, 2, 13}, d : {1, 30},
                     y : {1, 2020}]
       IN arg \in [provider_enumeration_date : DateCells,
                   last_update_date : DateCells]
    /\ out = NoResult

\* _convert_dataframe_row_to_document, as far as the epochs go
MapDates ==
    /\ out.calls = 0
    /\ \E created \in EpochOutcomes(ParseDate(arg.provider_enumeration_date)),
          updated \in EpochOutcomes(ParseDate(arg.last_update_date)) :
          out' = [calls |-> 1, raised |-> FALSE, created_epoch |-> created,
                  last_updated_epoch |-> updated]
    /\ UNCHANGED <<engineVars, boot, loader, arg>>

\* a phone or fax cell is about to be formatted
InitPhone ==
    /\ Constructed
    \* a phone or fax cell: missing, a float or an integer (its decimal
    \* digits), or text made of digits
    /\ LET PhoneDigits == SeqsUpTo({"0", "5"}, MaxPhoneLen) \ {<<>>}
       IN arg \in {[dtype |-> "nan", text |-> <<>>]}
                  \cup {[dtype |-> t, text |-> StripLeadingZeros(d)] :
                          t \in {"float64", "int64"}, d \in PhoneDigits}
                  \cup {[dtype |-> "str", text |-> d] : d \in PhoneDigits}
    /\ out = NoResult

\* _format_phone on the cell
FormatPhoneCall ==
    /\ out.calls = 0
    /\ out' = [calls |-> 1, result |-> FormatPhone(arg)]
    /\ UNCHANGED <<engineVars, boot, loader, arg>>

\* a row's numbered columns are about to be mapped
InitSlots ==
    /\ Constructed
    \* the rows: the taxonomy columns 1..TaxonomySlots + 1, or the
    \* identifier columns 1..IdentifierSlots + 1
    /\ LET TaxonomySlotCells ==
               [code : {NaN, TaxKnown, TaxNew}, switch : {NaN, <<"Y">>, <<"y">>}]
           IdentifierSlotCells ==
               [ident : {NaN, <<"A", "7">>, <<"B", "8">>}, idtype : {NaN, <<"5">>}]
       IN arg \in
             {[kind |-> "taxonomies", slots |-> q] :
                q \in {p \in SeqsUpTo(TaxonomySlotCells, TaxonomySlots + 1) :
                         Len(p) = TaxonomySlots + 1}}
             \cup
             {[kind |-> "identifiers", slots |-> q] :
                q \in {p \in SeqsUpTo(IdentifierSlotCells, IdentifierSlots + 1) :
                         Len(p) = IdentifierSlots + 1}}
    /\ out = NoResult

\* _extract_taxonomies on the row
ExtractTaxonomiesCall ==
    /\ out.calls = 0
    /\ arg.kind = "taxonomies"
    /\ out' = [calls |-> 1,
               list |-> ExtractTaxonomySlots(arg.slots, taxonomy_descriptions, 1)]
    /\ UNCHANGED <<engineVars, boot, loader, arg>>

\* _extract_identifiers on the row
ExtractIdentifiersCall ==
    /\ out.calls = 0
    /\ arg.kind = "identifiers"
    /\ out' = [calls |-> 1,
               list |-> ExtractIdentifierSlots(arg.slots, identifier_types, 1)]
    /\ UNCHANGED <<engineVars, boot, loader, arg>>

\* a batch with one identifier type code is about to be scanned
InitTokens ==
    /\ Constructed
    /\ arg \in (SeqsUpTo({"0", "1", ".", "A"}, MaxTokenLen) \ {<<>>})
    /\ out = NoResult

\* _extract_identifiers_from_dataframe on the one-row batch whose
\* identifier slot has the type code
ExtractIdentifiersCallTokens ==
    /\ out.calls = 0
    /\ out' = [calls |-> 1,
               new_identifiers |->
                   ExtractIdentifiersFromDataframe(
                       <<[npi |-> 1, name |-> "a", postal |-> "12345",
                          tax |-> NaN, idtype |-> arg, ident |-> <<"A", "7">>]>>,
                       identifier_types)]
    /\ UNCHANGED <<engineVars, boot, loader, arg>>

\* parse_and_insert has read a one-row chunk
InitPipeline ==
    /\ Constructed
    /\ arg \in AddressChunks
    /\ out = NoResult

\* chunk = loader.normalize_columns(chunk)
NormalizeChunk ==
    /\ out.calls = 0
    /\ out' = [calls |-> 1, chunk |-> RenameColumns(arg)]
    /\ UNCHANGED <<engineVars, boot, loader, arg>>

\* the mapper builds the addresses of the chunk's row
MapAddresses ==
    /\ out.calls = 1
    /\ out' = [calls |-> 2, chunk |-> out.chunk,
               addresses |-> ExtractAddresses(out.chunk)]
    /\ UNCHANGED <<engineVars, boot, loader, arg>>

\* ------------------------------------------------------------ the calls
LoopPcMutRefresh(o) == "refresh"
LoopPc(o) == IF o = "insert" THEN "mapping" ELSE "updating"

\* entry of insert()/update(): cache_update_result is initialised and the
\* cache refresh runs next when update_cache is set
\* a call of `o` with one of `batches` starts
StartBatch(batches, o) ==
    /\ pc = "idle"
    /\ \E batch \in batches, flag \in BOOLEAN :
        /\ op' = o
        /\ df' = batch
        /\ update_cache' = flag
        /\ pc' = IF flag THEN "refresh" ELSE LoopPc(o)
    /\ index' = 1
    /\ store0' = store
    /\ taxonomy0' = taxonomy_descriptions
    /\ cache_update_result' = NoCacheUpdates
    /\ UNCHANGED <<storeVars, cacheVars, countVars, documents, errors, success,
                   bulk_failed, submitted, counted, firstIns, saves,
                   save_failed>>

StartCall(RS, o) ==
    StartBatch(SeqsUpTo(RS, MaxRows) \ {<<>>}, o) /\ UNCHANGED auxVars

\* insert() of a scenario batch on the empty collection
InsertCallEmptyStore ==
    /\ store = {}
    /\ StartBatch(ScenarioBatches, "insert")
    /\ UNCHANGED auxVars

\* insert() of a one-row batch after construction
InsertCallBoot ==
    /\ StartBatch({<<r>> : r \in CacheRows}, "insert")
    /\ UNCHANGED auxVars

\* parse_and_insert: insert(single_row_df, update_cache=True) of a chunk's row
InsertRow ==
    /\ loader.pc = "chunk"
    /\ StartBatch({<<r>> : r \in {c \in CacheRows : /\ IsNa(c.idtype)
                                                   /\ IsNa(c.ident)
                                                   /\ c.tax # TaxKnown}},
                  "insert")
    /\ update_cache'
    /\ loader' = [loader EXCEPT !.pc = "inserting", !.rows = @ + 1]
    /\ UNCHANGED <<boot, arg, out>>

InsertCallLookup == StartCall(LookupRows, "insert")
UpdateCallLookup == StartCall(LookupRows, "update")

InsertCall == StartCall(StoreRows, "insert")
UpdateCall == StartCall(StoreRows, "update")
InsertCallCodes == StartCall(CacheRows, "insert")
UpdateCallCodes == StartCall(CacheRows, "update")

\* the outcome recorded for one cache file of the call
SaveOutcome(new, outcome) == IF DOMAIN new # {} THEN outcome ELSE "none"

\* update_caches_from_dataframe: extract, merge, save, count.  An exception
\* leaving it would end the call in the outer except clause of
\* insert()/update() (success False, one error entry, counts zero).
CacheRefresh ==
    /\ pc = "refresh"
    /\ LET new_taxonomies ==
               ExtractTaxonomiesFromDataframe(df, taxonomy_descriptions)
           new_identifiers ==
               ExtractIdentifiersFromDataframe(df, identifier_types)
       IN /\ taxonomy_descriptions' = DictUpdate(taxonomy_descriptions, new_taxonomies)
          /\ identifier_types' = DictUpdate(identifier_types, new_identifiers)
          /\ \E o1 \in SaveOutcomes, o2 \in SaveOutcomes :
                /\ taxonomy_cache_file' =
                      IF DOMAIN new_taxonomies # {}
                      THEN SaveCache(taxonomy_cache_file, taxonomy_descriptions', o1)
                      ELSE taxonomy_cache_file
                /\ identifier_cache_file' =
                      IF DOMAIN new_identifiers # {}
                      THEN SaveCache(identifier_cache_file, identifier_types', o2)
                      ELSE identifier_cache_file
                /\ saves' = [taxonomy |-> SaveOutcome(new_taxonomies, o1),
                             identifier |-> SaveOutcome(new_identifiers, o2)]
                /\ save_failed' = (save_failed \/ "failed" \in {saves'.taxonomy, saves'.identifier})
                /\ IF \/ SaveRaises(saves'.taxonomy)
                      \/ SaveRaises(saves'.identifier)
                   THEN /\ pc' = "reported"
                        /\ success' = FALSE
                        /\ errors' = <<ErrorEntry("call", 0)>>
                        /\ cache_update_result' = NoCacheUpdates
                   ELSE /\ pc' = LoopPc(op)
                        /\ cache_update_result' =
                              [taxonomies_added |-> Cardinality(DOMAIN new_taxonomies),
                               identifiers_added |-> Cardinality(DOMAIN new_identifiers)]
                        /\ UNCHANGED <<errors, success>>
    /\ UNCHANGED <<storeVars, argVars, countVars, index, documents,
                   bulk_failed, submitted, counted, firstIns, auxVars>>

\* insert(): one iteration of the mapping loop
MapRow ==
    /\ pc = "mapping"
    /\ LET r == ConvertDataframeRowToDocument(df[index], taxonomy_descriptions,
                                              identifier_types)
           outcome == MapOutcome(r)
       IN /\ documents' = IF outcome = "document" THEN Append(documents, r.doc)
                          ELSE documents
          /\ submitted' = IF outcome = "document" THEN Append(submitted, 0)
                          ELSE submitted
          /\ counted' = IF outcome = "document" THEN Append(counted, 0)
                        ELSE counted
          /\ errors' = IF outcome = "document" THEN errors
                       ELSE Append(errors, ErrorEntry(outcome, index))
    /\ IF index = Len(df)
       THEN pc' = "writing" /\ index' = 1
       ELSE pc' = "mapping" /\ index' = index + 1
    /\ UNCHANGED <<storeVars, cacheVars, argVars, countVars,
                   cache_update_result, success, bulk_failed, firstIns,
                   saves, save_failed, auxVars>>

\* insert(): the bulk insert, or nothing to write
BulkInsert ==
    /\ pc = "writing"
    /\ IF documents = <<>>
       THEN /\ inserted_count' = 0
            /\ pc' = "reported"
            /\ success' = TRUE
            /\ UNCHANGED <<store, submitted, counted, bulk_failed>>
       ELSE LET res == InsertMany(store, documents)
            IN /\ store' = res.store
               /\ submitted' = [i \in DOMAIN submitted |-> submitted[i] + 1]
               /\ bulk_failed' = res.failed
               /\ IF res.failed
                  THEN /\ inserted_count' = 0
                       /\ pc' = "fallback"
                       /\ UNCHANGED <<counted, success>>
                  ELSE /\ inserted_count' = Len(documents)
                       /\ counted' = [i \in DOMAIN counted |-> 1]
                       /\ pc' = "reported"
                       /\ success' = TRUE
    /\ UNCHANGED <<cacheVars, argVars, updated_count, not_found_count,
                   cache_update_result, index, documents, errors, firstIns,
                   saves, save_failed, auxVars>>

\* the fallback loop moves to the next document whatever insert_one did
FallbackNextMutRetry(i, ok) == IF ok THEN i + 1 ELSE i
FallbackNextMutBreak(i, ok) == IF ok THEN i + 1 ELSE Len(documents) + 1
FallbackNext(i, ok) == i + 1

\* insert(): one iteration of the per-document fallback
FallbackInsertOne ==
    /\ pc = "fallback"
    /\ LET doc == documents[index]
           ok == ~DuplicateKey(store, doc)
           next == FallbackNext(index, ok)
       IN /\ submitted' = [submitted EXCEPT ![index] = @ + 1]
          /\ IF ok
             THEN /\ store' = store \cup {doc}
                  /\ inserted_count' = inserted_count + 1
                  /\ counted' = [counted EXCEPT ![index] = 1]
                  /\ UNCHANGED errors
             ELSE /\ errors' = Append(errors, ErrorEntry("write", doc.number))
                  /\ UNCHANGED <<store, inserted_count, counted>>
          /\ index' = next
          /\ IF next > Len(documents)
             THEN pc' = "reported" /\ success' = TRUE
             ELSE pc' = "fallback" /\ UNCHANGED success
    /\ UNCHANGED <<cacheVars, argVars, updated_count, not_found_count,
                   cache_update_result, documents, bulk_failed, firstIns,
                   saves, save_failed, auxVars>>

\* update(): one iteration of the loop: map the row, replace by key
UpdateRow ==
    /\ pc = "updating"
    /\ LET r == ConvertDataframeRowToDocument(df[index], taxonomy_descriptions,
                                              identifier_types)
           outcome == MapOutcome(r)
           rep == ReplaceOne(store, r.doc.number, r.doc)
       IN IF outcome = "document"
          THEN /\ store' = rep.store
               /\ submitted' = Append(submitted, 1)
               /\ updated_count' = IF rep.matched_count > 0
                                   THEN updated_count + 1 ELSE updated_count
               /\ not_found_count' = IF rep.matched_count > 0
                                     THEN not_found_count ELSE not_found_count + 1
               /\ UNCHANGED errors
          ELSE /\ errors' = Append(errors, ErrorEntry(outcome, index))
               /\ UNCHANGED <<store, submitted, updated_count, not_found_count>>
    /\ IF index = Len(df)
       THEN pc' = "reported" /\ success' = TRUE /\ index' = 1
       ELSE pc' = "updating" /\ UNCHANGED success /\ index' = index + 1
    /\ UNCHANGED <<cacheVars, argVars, inserted_count, cache_update_result,
                   documents, counted, bulk_failed, firstIns,
                   saves, save_failed, auxVars>>

\* what the call being reported did for key k
DocsWithKey(k) == {i \in DOMAIN documents : documents[i].number = k}
CountedFor(k) == Cardinality({i \in DocsWithKey(k) : counted[i] = 1})
ErrorsFor(k) ==
    Cardinality({i \in DOMAIN errors : errors[i] = ErrorEntry("write", k)})
StoredWithKey(s, k) == {e \in s : e.number = k}

\* the call returns its result; the engine is idle again
Return ==
    /\ pc = "reported"
    /\ firstIns' =
        [k \in Keys |->
            IF /\ op = "insert"
               /\ ~firstIns[k].tried
               /\ Cardinality(DocsWithKey(k)) = 1
               /\ StoredWithKey(store0, k) = {}
            THEN [tried |-> TRUE, counted |-> CountedFor(k), errs |-> ErrorsFor(k)]
            ELSE firstIns[k]]
    /\ pc' = "idle"
    /\ op' = "none"
    /\ df' = <<>>
    /\ update_cache' = FALSE
    /\ cache_update_result' = NoCacheUpdates
    /\ index' = 0
    /\ documents' = <<>>
    /\ errors' = <<>>
    /\ inserted_count' = 0
    /\ updated_count' = 0
    /\ not_found_count' = 0
    /\ success' = FALSE
    /\ bulk_failed' = FALSE
    /\ submitted' = <<>>
    /\ counted' = <<>>
    /\ store0' = {}
    /\ taxonomy0' = <<>>
    /\ saves' = NoSaves
    /\ UNCHANGED <<storeVars, cacheVars, save_failed, auxVars>>

\* batches that exercise the store
Next ==
    \/ InsertCall
    \/ UpdateCall
    \/ CacheRefresh
    \/ MapRow
    \/ BulkInsert
    \/ FallbackInsertOne
    \/ UpdateRow
    \/ Return

Spec == Init /\ [][Next]_vars

\* batches that exercise the caches
NextCodes ==
    \/ InsertCallCodes
    \/ UpdateCallCodes
    \/ CacheRefresh
    \/ MapRow
    \/ BulkInsert
    \/ FallbackInsertOne
    \/ UpdateRow
    \/ Return

SpecCodes == Init /\ [][NextCodes]_vars

\* batches whose code cells may be blank
NextLookup ==
    \/ InsertCallLookup
    \/ UpdateCallLookup
    \/ CacheRefresh
    \/ MapRow
    \/ BulkInsert
    \/ FallbackInsertOne
    \/ UpdateRow
    \/ Return

SpecLookup == Init /\ [][NextLookup]_vars

\* insert calls of scenario batches on the empty collection
NextScenario ==
    \/ InsertCallEmptyStore
    \/ CacheRefresh
    \/ MapRow
    \/ BulkInsert
    \/ FallbackInsertOne
    \/ Return

SpecScenario == Init /\ [][NextScenario]_vars

\* construction over any cache directory, then one-row insert calls
NextBoot ==
    \/ Bootstrap
    \/ InsertCallBoot
    \/ CacheRefresh
    \/ MapRow
    \/ BulkInsert
    \/ FallbackInsertOne
    \/ Return

SpecBoot == InitBoot /\ [][NextBoot]_vars

\* a parse run
NextLoad ==
    \/ Construct
    \/ GetMongo
    \/ OpenStream
    \/ NextChunk
    \/ InsertRow
    \/ CacheRefresh
    \/ MapRow
    \/ BulkInsert
    \/ FallbackInsertOne
    \/ Return
    \/ Break

SpecLoad == InitLoad /\ [][NextLoad]_vars

\* normalize_columns applied once and again
NextNormalize ==
    \/ Normalize
    \/ NormalizeAgain

SpecNormalize == InitNormalize /\ [][NextNormalize]_vars

\* a row is inserted and looked up by its identifier
NextNumber ==
    \/ InsertNumber
    \/ FindByNpi

SpecNumber == InitNumber /\ [][NextNumber]_vars

\* a row's dates are mapped
NextDates == MapDates

SpecDates == InitDates /\ [][NextDates]_vars

\* a phone or fax cell is formatted
NextPhone == FormatPhoneCall

SpecPhone == InitPhone /\ [][NextPhone]_vars

\* a row's taxonomy or identifier columns are mapped
NextSlots ==
    \/ ExtractTaxonomiesCall
    \/ ExtractIdentifiersCall

SpecSlots == InitSlots /\ [][NextSlots]_vars

\* the identifier types of a batch are extracted
NextTokens == ExtractIdentifiersCallTokens

SpecTokens == InitTokens /\ [][NextTokens]_vars

\* the pipeline normalizes a chunk and maps the addresses of its row
NextPipeline == NormalizeChunk \/ MapAddresses

SpecPipeline == InitPipeline /\ [][NextPipeline]_vars

\* ------------------------------------------------------------ the claims
\* error entries "Row <i>: ..." of row i of the batch
RowErrors(i) ==
    {j \in DOMAIN errors : errors[j].ref = i /\ errors[j].kind \in {"missing", "mapping"}}
\* error entries "NPI <number>: ..." of the fallback, in order
WriteErrors ==
    LET IsWriteError(e) == e.kind = "write"
    IN SelectSeq(errors, IsWriteError)
\* the rows of the batch that yield a document
RowRaises(i) ==
    ConvertDataframeRowToDocument(df[i], taxonomy_descriptions, identifier_types).raised
ValidRows == {i \in DOMAIN df : ~RowRaises(i) /\ df[i].npi # NaNNum}

\* C1: when a key that the store lacks is inserted by one insert call and
\* again by a later insert call (one row each), exactly one of the two
\* attempts counts towards inserted_count, the other has exactly one error
\* entry for the key, and the store holds exactly one document with that
\* number, which the later call did not overwrite.
InsertTwiceOneSuccess ==
    (pc = "reported" /\ op = "insert") =>
        \A k \in Keys :
            (firstIns[k].tried /\ Cardinality(DocsWithKey(k)) = 1) =>
                /\ firstIns[k].counted + CountedFor(k) = 1
                /\ firstIns[k].counted = 0 => firstIns[k].errs = 1
                /\ CountedFor(k) = 0 => ErrorsFor(k) = 1
                /\ Cardinality(StoredWithKey(store, k)) = 1
                /\ StoredWithKey(store, k) = StoredWithKey(store0, k)

\* C2: in every reachable state no two stored documents have the same
\* number and no stored document has a null number.
UniqueNumber ==
    /\ \A d \in store, e \in store : d.number = e.number => d = e
    /\ \A d \in store : d.number \in Keys

\* an insert call met a duplicate key and a row without npi
UniqueNumberWitness ==
    /\ pc = "reported" /\ op = "insert" /\ bulk_failed
    /\ \E j \in DOMAIN errors : errors[j].kind = "missing"
    /\ Cardinality(store) = NumKeys

\* C3: an update row whose key is absent from the store adds one to
\* not_found_count, leaves updated_count and the error list alone and leaves
\* the store unchanged.
UpdateNotFoundStep ==
    (/\ pc = "updating"
     /\ index \in ValidRows
     /\ StoredWithKey(store, df[index].npi) = {})
    => (/\ not_found_count' = not_found_count + 1
        /\ updated_count' = updated_count
        /\ errors' = errors
        /\ store' = store)
UpdateNotFound == [][UpdateNotFoundStep]_vars

\* an update call has met an absent key while the store holds another key
UpdateNotFoundWitness ==
    /\ pc = "reported" /\ op = "update"
    /\ not_found_count > 0 /\ updated_count > 0
    /\ store = store0

\* C4: the cache refresh only adds keys to the taxonomy cache and to the
\* identifier-type cache; a code already present keeps its description.
AbsorbMonotonicStep ==
    /\ \A c \in DOMAIN taxonomy_descriptions :
          /\ c \in DOMAIN taxonomy_descriptions'
          /\ taxonomy_descriptions'[c] = taxonomy_descriptions[c]
    /\ \A c \in DOMAIN identifier_types :
          /\ c \in DOMAIN identifier_types'
          /\ identifier_types'[c] = identifier_types[c]
AbsorbMonotonic == [][AbsorbMonotonicStep]_vars

\* a refresh has absorbed a new taxonomy code from a batch that also holds
\* a known one, the identifier-type cache having grown before
AbsorbMonotonicWitness ==
    /\ pc \in {"mapping", "updating"} /\ update_cache
    /\ cache_update_result.taxonomies_added = 1
    /\ TaxKnown \in TaxCells(df)
    /\ <<"9", ".", "0">> \in DOMAIN identifier_types
    /\ taxonomy_descriptions[TaxKnown] = DefaultTaxonomies[TaxKnown]

\* C5: with update_cache set, the refresh is complete when the first row is
\* mapped (every code of the batch is in the caches) and neither the caches
\* nor the cache files change while rows are mapped.
RefreshComplete ==
    (pc \in {"mapping", "updating"} /\ update_cache) =>
        /\ ObservedCodes(TaxCells(df)) \subseteq DOMAIN taxonomy_descriptions
        /\ ObservedCodes(IdTypeCells(df)) \subseteq DOMAIN identifier_types
RefreshBeforeMapping ==
    /\ []RefreshComplete
    /\ [][(pc \in {"mapping", "updating"}) => (cacheVars' = cacheVars)]_vars

\* the last row of a batch is about to be mapped after a refresh that
\* added a code seen only in that row
RefreshBeforeMappingWitness ==
    /\ pc \in {"mapping", "updating"} /\ update_cache
    /\ Len(df) > 1 /\ index = Len(df)
    /\ cache_update_result.taxonomies_added = 1
    /\ df[1].tax # TaxNew /\ df[index].tax = TaxNew

\* C6 as stated: every row without npi gets exactly one error entry, with
\* the reason "Missing NPI number", yields no document, and every row of
\* the batch is accounted for.
MissingNpiReason ==
    pc = "reported" =>
        /\ \A i \in DOMAIN df :
              df[i].npi = NaNNum =>
                  /\ Cardinality(RowErrors(i)) = 1
                  /\ \A j \in RowErrors(i) : errors[j].kind = "missing"
        /\ \A d \in store : d.number # NoneNum
        /\ Len(submitted) + Cardinality(UNION {RowErrors(i) : i \in DOMAIN df}) = Len(df)

\* C6 amended: every row without npi gets exactly one error entry, whose
\* reason is "Missing NPI number" when the rest of the row maps without an
\* exception and the exception's message otherwise; it yields no document
\* and every row of the batch is accounted for.
MissingNpiRejected ==
    pc = "reported" =>
        /\ \A i \in DOMAIN df :
              df[i].npi = NaNNum =>
                  /\ Cardinality(RowErrors(i)) = 1
                  /\ \A j \in RowErrors(i) :
                        errors[j].kind = IF RowRaises(i) THEN "mapping" ELSE "missing"
        /\ \A d \in store : d.number # NoneNum
        /\ Len(submitted) + Cardinality(UNION {RowErrors(i) : i \in DOMAIN df}) = Len(df)

\* a batch whose first row has no npi and whose second row was written
MissingNpiRejectedWitness ==
    /\ pc = "reported" /\ Len(df) = 2
    /\ df[1].npi = NaNNum /\ ~RowRaises(1)
    /\ errors = <<ErrorEntry("missing", 1)>>
    /\ Len(submitted) = 1 /\ submitted[1] >= 1

\* C7: a row whose mapping raises gets exactly one error entry and leaves
\* no document, not even a partial one; every other row is mapped and its
\* document handed to the store; the call reports success.
MappingFailureIsolated ==
    pc = "reported" =>
        /\ success
        /\ \A i \in DOMAIN df :
              RowRaises(i) =>
                  /\ Cardinality(RowErrors(i)) = 1
                  /\ \A j \in RowErrors(i) : errors[j].kind = "mapping"
        /\ Len(submitted) = Cardinality(ValidRows)
        /\ \A j \in DOMAIN submitted : submitted[j] >= 1
        /\ \A d \in store : d.name # "None" /\ d.postal_code # "None"

\* the first row failed to map and the row after it was inserted
MappingFailureIsolatedWitness ==
    /\ pc = "reported" /\ op = "insert" /\ Len(df) = 2
    /\ RowRaises(1) /\ df[1].npi # NaNNum
    /\ inserted_count = 1
    /\ Cardinality(store) = Cardinality(store0) + 1

InsertedCountIsAdded ==
    (pc = "reported" /\ op = "insert" /\ success) =>
        inserted_count = Cardinality(store) - Cardinality(store0)

\* C10: within an insert call a document is handed to the store once by
\* the bulk insert and at most once more by the fallback, which runs only
\* when the bulk insert failed; within an update call at most once.
SubmittedAtMostTwice ==
    \A j \in DOMAIN submitted :
        submitted[j] <= IF op = "insert" /\ bulk_failed THEN 2 ELSE 1

\* a document whose individual insert failed, at the end of the fallback
SubmittedAtMostTwiceWitness ==
    /\ pc = "reported" /\ op = "insert" /\ bulk_failed
    /\ \E j \in DOMAIN submitted : submitted[j] = 2 /\ counted[j] = 0
    /\ Len(WriteErrors) = Len(documents)

\* the end-to-end scenario: an insert with cache refresh on the empty
\* store has returned; row 1 has a key and a cached code, row 2 another key
\* and a code the cache lacked, row 3 has no key and no further unseen code
ScenarioReported ==
    /\ pc = "reported" /\ op = "insert" /\ update_cache
    /\ store0 = {} /\ Len(df) = 3
    /\ df[1].npi # NaNNum /\ ~IsNa(df[1].tax) /\ Strip(df[1].tax) \in DOMAIN taxonomy0
    /\ df[2].npi # NaNNum /\ df[2].npi # df[1].npi
    /\ ~IsNa(df[2].tax) /\ Strip(df[2].tax) \notin DOMAIN taxonomy0
    /\ df[3].npi = NaNNum
    /\ IsNa(df[3].tax) \/ Strip(df[3].tax) \in DOMAIN taxonomy0 \cup {Strip(df[2].tax)}

ScenarioCounts ==
    /\ inserted_count = 2
    /\ Cardinality(store) = 2
    /\ errors = <<ErrorEntry("missing", 3)>>
    /\ cache_update_result.taxonomies_added = 1
    /\ DOMAIN taxonomy_descriptions = DOMAIN taxonomy0 \cup {Strip(df[2].tax)}

\* C11 as stated: in the scenario 2 documents are inserted, the one error is
\* row 3's missing identifier, taxonomies_added = 1, the taxonomy cache
\* grows by row 2's code only and its description is "Code <value>".
ScenarioPlaceholderCode ==
    ScenarioReported =>
        /\ ScenarioCounts
        /\ taxonomy_descriptions[Strip(df[2].tax)] = Desc("Code {}", Strip(df[2].tax))

\* C11 amended: the same, the description being "Taxonomy Code <value>".
ScenarioResult ==
    ScenarioReported =>
        /\ ScenarioCounts
        /\ taxonomy_descriptions[Strip(df[2].tax)]
              = Desc("Taxonomy Code {}", Strip(df[2].tax))

\* the scenario has run with the default cache
ScenarioResultWitness ==
    /\ ScenarioReported
    /\ taxonomy0 = DefaultTaxonomies
    /\ df[1].tax = TaxKnown /\ df[2].tax = TaxNew

SaveFailureTolerated ==
    /\ [][(pc = "refresh" /\ "failed" \in {saves'.taxonomy, saves'.identifier}) =>
            /\ pc' \in {"mapping", "updating"}
            /\ \A c \in DOMAIN taxonomy_descriptions :
                  /\ c \in DOMAIN taxonomy_descriptions'
                  /\ taxonomy_descriptions'[c] = taxonomy_descriptions[c]
            /\ \A c \in DOMAIN identifier_types :
                  /\ c \in DOMAIN identifier_types'
                  /\ identifier_types'[c] = identifier_types[c]
            /\ ObservedCodes(TaxCells(df)) \subseteq DOMAIN taxonomy_descriptions'
            /\ ObservedCodes(IdTypeCells(df)) \subseteq DOMAIN identifier_types'
            /\ errors' = errors
            /\ cache_update_result'.taxonomies_added
                  = Cardinality(DOMAIN taxonomy_descriptions'
                                \ DOMAIN taxonomy_descriptions)
            /\ cache_update_result'.identifiers_added
                  = Cardinality(DOMAIN identifier_types'
                                \ DOMAIN identifier_types)]_vars
    /\ []((pc = "reported" /\ "failed" \in {saves.taxonomy, saves.identifier}) =>
            /\ success
            /\ \A i \in DOMAIN errors : errors[i].kind \in {"missing", "mapping", "write"}
            /\ cache_update_result.taxonomies_added
                  = Cardinality(DOMAIN taxonomy_descriptions \ DOMAIN taxonomy0)
            /\ \A i \in DOMAIN documents : \A j \in DOMAIN documents[i].taxonomies :
                  documents[i].taxonomies[j].desc
                     = taxonomy_descriptions[documents[i].taxonomies[j].code])

\* an insert has returned whose taxonomy file write failed: the file is
\* stale, the cache holds the new code and a document was mapped with it
SaveFailureToleratedWitness ==
    /\ pc = "reported" /\ op = "insert"
    /\ saves.taxonomy = "failed"
    /\ TaxNew \notin DOMAIN taxonomy_cache_file.data
    /\ cache_update_result.taxonomies_added = 1
    /\ \E i \in DOMAIN documents :
          /\ documents[i].taxonomies # <<>>
          /\ documents[i].taxonomies[1]
                = [code |-> TaxNew, desc |-> Desc("Taxonomy Code {}", TaxNew)]

\* the construction step
BootStep == pc = "boot"

\* the file loads: the cache is exactly its contents and it is left alone
LoadedExactly(file, cache) ==
    (file.exists /\ file.valid) => (cache' = file.data /\ file' = file)

CorruptReseeded(file, cache, default) ==
    (LoadBranch(file) = "corrupt") =>
        /\ cache' = default
        /\ file' \in {File(default), file}
        /\ ~save_failed' => file' = File(default)

HandlesClosed ==
    (loader.pc \in {"done", "failed"}) => (~loader.zip_open /\ ~loader.csv_open)

\* C16: with a source the run must reject (missing path, corrupt archive,
\* neither .zip nor .csv, archive without a .csv member) no row is ever
\* processed, no document is written and the cache files stay as they
\* were.
BadSourceAborts ==
    LET source == loader.source
        BadSource ==
            \/ ~source.exists
            \/ source.ext = "other"
            \/ source.ext = "zip" /\ source.archive \in {"not_a_zip", "bad_member"}
            \/ /\ source.ext = "zip"
               /\ \A i \in DOMAIN source.members : ~IsCsv(source.members[i])
    IN (loader.pc # "none" /\ BadSource) =>
          /\ loader.rows = 0
          /\ op = "none"
          /\ store = {}
          /\ <<taxonomy_cache_file, identifier_cache_file>> = loader.cache_dir0

\* C17: once the loader of a readable archive is constructed or has failed,
\* the selected member is the first prefixed .csv member, else the first
\* .csv member; without any .csv member construction has failed and no
\* member is selected.
MemberSelected ==
    (/\ loader.pc \notin {"none", "start"}
     /\ loader.source.exists /\ loader.source.ext = "zip"
     /\ loader.source.archive # "not_a_zip") =>
        LET \* the first index at which `flags` is true, 0 when there is none
            FirstIndex(flags) ==
                IF \E i \in DOMAIN flags : flags[i]
                THEN CHOOSE i \in DOMAIN flags :
                        /\ flags[i]
                        /\ \A j \in 1..(i - 1) : ~flags[j]
                ELSE 0
            members == loader.source.members
            csv == [i \in DOMAIN members |->
                       EndsWith(LowerStr(members[i]), <<".", "c", "s", "v">>)]
            prefixed == [i \in DOMAIN members |->
                            /\ csv[i]
                            /\ StartsWith(LowerStr(members[i]),
                                          LowerStr(loader.prefix_arg))]
            p == FirstIndex(prefixed)
            c == FirstIndex(csv)
        IN IF p # 0 THEN loader.csv_filename = members[p]
           ELSE IF c # 0 THEN loader.csv_filename = members[c]
           ELSE loader.csv_filename = None /\ loader.pc = "failed"

\* no member has the prefix: the second member, the first .csv one, is
\* selected and its chunks are being read
MemberSelectedWitness ==
    /\ loader.pc = "chunk"
    /\ loader.prefix_arg = <<"q">>
    /\ loader.source.members = <<<<"n", "p", ".", "t", "x", "t">>,
                                 <<"a", ".", "C", "S", "V">>>>
    /\ loader.csv_filename = <<"a", ".", "C", "S", "V">>

\* C19: normalize_columns gives the same name when applied to its own
\* result, and every result consists of lowercase letters, digits and
\* single underscores, none of them leading or trailing.
NormalizeIdempotent ==
    /\ (out.calls = 2 => out.cols = out.first)
    /\ (out.calls >= 1 =>
          /\ \A i \in DOMAIN out.cols :
                out.cols[i] \in LowerLetters \cup Digits \cup {"_"}
          /\ \A i \in 1..(Len(out.cols) - 1) :
                ~(out.cols[i] = "_" /\ out.cols[i + 1] = "_")
          /\ out.cols # <<>> => (out.cols[1] # "_" /\ out.cols[Len(out.cols)] # "_"))

\* "A (." has gone through every step and was normalized again: "a"
NormalizeIdempotentWitness ==
    /\ arg = <<"A", " ", "(", ".">>
    /\ out = [calls |-> 2, cols |-> <<"a">>, first |-> <<"a">>]

\* C18: the stored document's number is the identifier's digit string as
\* written, and find_by_npi with that string returns the document.
NumberRoundTrips ==
    /\ \A doc \in store : doc.number = arg.digits
    /\ out.calls = 1 => (out.result # None /\ out.result.number = arg.digits)

\* C20 as stated: mapping never fails on a date, and each epoch is non-null
\* exactly when its date is present and parses as MM/DD/YYYY.
EpochIffSlashDate ==
    out.calls = 1 =>
        /\ ~out.raised
        /\ ~out.created_epoch.null <=> StrptimeAccepts(arg.provider_enumeration_date)
        /\ ~out.last_updated_epoch.null <=> StrptimeAccepts(arg.last_update_date)

\* an epoch is non-null only for a date that gives an ISO text, and for
\* every such date whose timestamp can be computed
EpochFor(cell, epoch) ==
    LET \* the date gives an ISO text: it parses as MM/DD/YYYY or is ISO
        \* text itself
        IsoParseable == \/ StrptimeAccepts(cell)
                        \/ cell.form = "iso" /\ ValidDate(cell)
    IN /\ ~epoch.null => IsoParseable
       /\ (IsoParseable /\ ~TimestampMayRaise(cell)) => ~epoch.null
       /\ ~epoch.null => epoch.date = <<cell.y, cell.m, cell.d>>

\* C20 amended: mapping never fails on a date, and each epoch is non-null
\* exactly when its date is present, parses as MM/DD/YYYY or is already
\* ISO text, and has a computable timestamp; otherwise it is null.
EpochIffIsoParseable ==
    out.calls = 1 =>
        /\ ~out.raised
        /\ EpochFor(arg.provider_enumeration_date, out.created_epoch)
        /\ EpochFor(arg.last_update_date, out.last_updated_epoch)

\* a row was mapped whose enumeration date is ISO text, passed through raw,
\* and whose update date is 02/30/2020, which is no date
EpochIffIsoParseableWitness ==
    /\ out.calls = 1
    /\ arg.provider_enumeration_date = [form |-> "iso", m |-> 1, d |-> 30, y |-> 2020]
    /\ out.created_epoch = [null |-> FALSE, date |-> <<2020, 1, 30>>]
    /\ arg.last_update_date = [form |-> "slash", m |-> 2, d |-> 30, y |-> 2020]
    /\ out.last_updated_epoch.null

\* C21: a missing phone or fax value maps to null; a value of exactly 10
\* digits maps to XXX-XXX-XXXX with those digits in order; a value of any
\* other length maps to its digit string unchanged.
PhoneFormatted ==
    out.calls = 1 =>
        IF arg.dtype = "nan" THEN out.result = None
        ELSE IF Len(arg.text) = 10
        THEN /\ Len(out.result) = 12
             /\ out.result[4] = "-" /\ out.result[8] = "-"
             /\ [i \in 1..10 |-> out.result[IF i <= 3 THEN i
                                            ELSE IF i <= 6 THEN i + 1
                                            ELSE i + 2]] = arg.text
        ELSE out.result = arg.text

\* the float 5055055055.0 was formatted as 505-505-5055
PhoneFormattedWitness ==
    /\ arg = [dtype |-> "float64",
              text |-> <<"5", "0", "5", "5", "0", "5", "5", "0", "5", "5">>]
    /\ out = [calls |-> 1,
              result |-> <<"5", "0", "5", "-", "5", "0", "5", "-",
                           "5", "0", "5", "5">>]

\* C22: the caches and the cache files change only in the refresh step of a
\* call, which a call takes at most once, at its start, and only when
\* update_cache is true; mapping and writing leave them alone.
CachesChangeOnlyInRefresh ==
    /\ [][(pc # "refresh") => (cacheVars' = cacheVars)]_vars
    /\ [][(pc' = "refresh") => (pc = "idle")]_vars
    /\ [](pc = "refresh" => update_cache)
    /\ []((pc # "idle" /\ ~update_cache) =>
            /\ taxonomy_descriptions = taxonomy0
            /\ cache_update_result = NoCacheUpdates)

\* without refresh a row with an unknown code was mapped: its description
\* is the sentinel and the cache still lacks the code
CachesChangeOnlyInRefreshWitness ==
    /\ pc = "writing" /\ ~update_cache
    /\ TaxNew \notin DOMAIN taxonomy_descriptions
    /\ \E i \in DOMAIN documents :
          /\ documents[i].taxonomies # <<>>
          /\ documents[i].taxonomies[1]
                = [code |-> TaxNew, desc |-> Desc("Unknown Taxonomy ({})", TaxNew)]

\* C23: when a call has returned success, every row of the batch is one
\* inserted document or one error entry (insert), or one update, one
\* not-found or one error entry (update).
RowsAccounted ==
    (pc = "reported" /\ success) =>
        /\ op = "insert" =>
              /\ inserted_count + Len(errors) = Len(df)
              /\ \A i \in DOMAIN df :
                    Cardinality(RowErrors(i)) = IF i \in ValidRows THEN 0 ELSE 1
              /\ Len(documents) = Cardinality(ValidRows)
        /\ op = "update" =>
              updated_count + not_found_count + Len(errors) = Len(df)

\* an insert has returned whose bulk write stored a new document and
\* failed on another: both rows are error entries, none is counted
RowsAccountedWitness ==
    /\ pc = "reported" /\ success /\ op = "insert" /\ bulk_failed
    /\ Len(df) = 2 /\ Len(errors) = 2 /\ inserted_count = 0
    /\ Cardinality(store) > Cardinality(store0)

\* the entries of the document come from the caches: no sentinel
FromCache(doc) ==
    /\ \A j \in DOMAIN doc.taxonomies :
          /\ doc.taxonomies[j].code \in DOMAIN taxonomy_descriptions
          /\ doc.taxonomies[j].desc = taxonomy_descriptions[doc.taxonomies[j].code]
    /\ \A j \in DOMAIN doc.identifiers :
          \E t \in DOMAIN identifier_types :
             /\ doc.identifiers[j].desc = identifier_types[t].desc
             /\ doc.identifiers[j].code = identifier_types[t].code

\* C24: in a call with cache refresh every entry of every mapped document
\* has the description the cache stores for its code, never the sentinel.
NoSentinelAfterRefresh ==
    /\ []((update_cache /\ op = "insert") =>
             \A i \in DOMAIN documents : FromCache(documents[i]))
    /\ [][(update_cache /\ pc = "updating") =>
             \A doc \in store' \ store : FromCache(doc)]_vars

\* the valid rows of the batch with key k
ValidRowsFor(k) == {i \in ValidRows : df[i].npi = k}

\* C25: when an update call has returned, the store has the keys it had
\* before; a key with valid rows in the batch holds the document mapped
\* from the last of them, every other key holds its old document.
UpdateReplacesInPlace ==
    (pc = "reported" /\ op = "update") =>
        /\ {e.number : e \in store} = {e.number : e \in store0}
        /\ Cardinality(store) = Cardinality(store0)
        /\ \A e \in store :
              IF ValidRowsFor(e.number) # {}
              THEN LET rows == ValidRowsFor(e.number)
                       last == CHOOSE i \in rows : \A j \in rows : j <= i
                   IN e = ConvertDataframeRowToDocument(
                              df[last], taxonomy_descriptions,
                              identifier_types).doc
              ELSE e \in store0

\* an update with two different valid rows for one stored key has
\* returned, the other stored key was not in the batch
UpdateReplacesInPlaceWitness ==
    /\ pc = "reported" /\ op = "update"
    /\ Len(df) = 2 /\ df[1].npi = df[2].npi /\ df[1] # df[2]
    /\ updated_count = 2
    /\ Cardinality(store) = 2
    /\ store # store0

\* the scanned slots of the row that hold a value, and the position a slot
\* has among them
FilledSlots ==
    IF arg.kind = "taxonomies"
    THEN {i \in 1..TaxonomySlots : ~IsNa(arg.slots[i].code)}
    ELSE {i \in 1..IdentifierSlots : ~IsNa(arg.slots[i].ident)}

\* C26: the taxonomies list has one entry per scanned slot with a code, in
\* slot order, primary exactly for a 'Y' switch; the identifiers list has
\* one entry per scanned slot with an identifier value, in slot order,
\* whether or not the slot has a type code.
SlotsInOrder ==
    LET RankOf(i) == Cardinality({j \in FilledSlots : j <= i})
    IN
    out.calls = 1 =>
        /\ Len(out.list) = Cardinality(FilledSlots)
        /\ arg.kind = "taxonomies" =>
              /\ Len(out.list) <= TaxonomySlots
              /\ \A i \in FilledSlots :
                    /\ out.list[RankOf(i)].code = arg.slots[i].code
                    /\ out.list[RankOf(i)].primary = (arg.slots[i].switch = <<"Y">>)
        /\ arg.kind = "identifiers" =>
              /\ Len(out.list) <= IdentifierSlots
              /\ \A i \in FilledSlots :
                    out.list[RankOf(i)].identifier = arg.slots[i].ident

\* identifiers were mapped from a row whose first slot is empty, whose
\* second has a value and no type code, and whose column beyond the range
\* has a value too: one entry
SlotsInOrderWitness ==
    /\ out.calls = 1 /\ arg.kind = "identifiers"
    /\ IsNa(arg.slots[1].ident)
    /\ arg.slots[2] = [ident |-> <<"B", "8">>, idtype |-> NaN]
    /\ ~IsNa(arg.slots[IdentifierSlots + 1].ident)
    /\ Len(out.list) = 1
    /\ out.list[1].identifier = <<"B", "8">>

\* C27: the code stored for an absorbed type token has exactly two
\* characters: the token's integer value zero-padded for a purely numeric
\* token (optionally ending in ".0"), "01" for any other token.
TwoCharCode ==
    out.calls = 1 =>
        \A t \in DOMAIN out.new_identifiers :
            LET code == out.new_identifiers[t].code
                \* the token without a trailing ".0"
                digits == IF Len(t) > 2
                             /\ SubSeq(t, Len(t) - 1, Len(t)) = <<".", "0">>
                          THEN SubSeq(t, 1, Len(t) - 2)
                          ELSE t
            IN /\ Len(code) = 2
               /\ IF IsDigit(digits)
                  THEN code = Format02d(StripLeadingZeros(digits))
                  ELSE code = <<"0", "1">>

\* the entry of a purpose carries the source country code, and names the
\* United States exactly for the code US
CountryOf(purpose, key) ==
    LET header == AddressHeaders[purpose]
        code == IF header.country \in DOMAIN arg THEN arg[header.country]
                ELSE arg[key.country]
    IN (~IsNa(arg[header.line1]) /\ ~IsNa(code)) =>
          \E i \in DOMAIN out.addresses :
             /\ out.addresses[i].address_purpose = purpose
             /\ out.addresses[i].country_code = code
             /\ (out.addresses[i].country_name = "United States"
                   <=> code = <<"U", "S">>)

\* C28: in the pipeline, an address whose first line and country code are
\* both present in the file carries that country code, and its
\* country_name is "United States" exactly when the code is US.
CountryCarried ==
    out.calls = 2 =>
        /\ CountryOf("MAILING", MailingKeys)
        /\ CountryOf("LOCATION", LocationKeys)
====
